---- MODULE Spec2Model ----
(***************************************************************************)
(* State-machine model of the chained generation pipeline of simple-agent: *)
(*   agent_tool.py        AndroidAgent (run, stages, _write_from_response) *)
(*   api_llm_responder.py build_api_llm_response (remote client, retries)  *)
(*   llm_responder.py     build_llm_response (local client)                *)
(*                                                                         *)
(* Strings are sequences of one-character strings.  A model reply for a    *)
(* file stage is a sequence of lexical tokens of the reply text:           *)
(*   "{"  "}"   the brace characters                                       *)
(*   "k"        the member key  "content":                                 *)
(*   "f"        the member      "filename":"a",   (with its comma)         *)
(*   "s"        the string literal "X"   (decodes to the string X)         *)
(*   "e"        the string literal ""                                      *)
(*   "n"        the digit 7 (adjacent digits form one number literal)      *)
(*   "p"        one character of prose (no brace, no whitespace)           *)
(*   " "        one whitespace character                                   *)
(***************************************************************************)
EXTENDS Integers, Sequences, FiniteSets, TLC

\* ------------------------------------------------------------------ bounds
\* longest raw response drawn for the extractor
MaxLen == 5

\* ------------------------------------------------------- python str helpers
WS == {" ", "\n"}

\* str.find(c): 0-based index of the first c, -1 when absent
PyFind(s, c) ==
    IF \E i \in 1..Len(s) : s[i] = c
    THEN (CHOOSE i \in 1..Len(s) : s[i] = c /\ \A j \in 1..(i-1) : s[j] # c) - 1
    ELSE -1

\* str.rfind(c): 0-based index of the last c, -1 when absent
PyRFind(s, c) ==
    IF \E i \in 1..Len(s) : s[i] = c
    THEN (CHOOSE i \in 1..Len(s) : s[i] = c /\ \A j \in (i+1)..Len(s) : s[j] # c) - 1
    ELSE -1

\* s[a:b] with python's treatment of negative and out-of-range indices
PySlice(s, a, b) ==
    LET n  == Len(s)
        a1 == IF a < 0 THEN (IF a + n < 0 THEN 0 ELSE a + n) ELSE (IF a > n THEN n ELSE a)
        b1 == IF b < 0 THEN (IF b + n < 0 THEN 0 ELSE b + n) ELSE (IF b > n THEN n ELSE b)
    IN  IF a1 >= b1 THEN << >> ELSE SubSeq(s, a1 + 1, b1)

\* str.strip(): drop leading and trailing whitespace
PyStrip(s) ==
    IF \A i \in 1..Len(s) : s[i] \in WS THEN << >>
    ELSE LET a == CHOOSE i \in 1..Len(s) : s[i] \notin WS /\ \A j \in 1..(i-1) : s[j] \in WS
             b == CHOOSE i \in 1..Len(s) : s[i] \notin WS /\ \A j \in (i+1)..Len(s) : s[j] \in WS
         IN  SubSeq(s, a, b)

\* ------------------------------------------------------------- json.loads
\* A parsed value: kind is "str", "num" or "obj"; str is the decoded text of
\* a string; truthy is python's bool(value); for an object, has/ckind/cstr/
\* ctruthy describe its "content" member (the last one wins).
NoValue == [ok |-> FALSE, next |-> 0, kind |-> "none", str |-> << >>, truthy |-> FALSE,
            has |-> FALSE, ckind |-> "none", cstr |-> << >>, ctruthy |-> FALSE]

Scalar(nxt, kd, st, tr) ==
    [ok |-> TRUE, next |-> nxt, kind |-> kd, str |-> st, truthy |-> tr,
     has |-> FALSE, ckind |-> "none", cstr |-> << >>, ctruthy |-> FALSE]

SkipWs(s, i) ==
    IF \E j \in i..Len(s) : s[j] \notin WS
    THEN CHOOSE j \in i..Len(s) : s[j] \notin WS /\ \A m \in i..(j-1) : s[m] \in WS
    ELSE Len(s) + 1

\* the position after the digits that start at i
SkipDigits(s, i) ==
    IF \E j \in i..Len(s) : s[j] # "n"
    THEN CHOOSE j \in i..Len(s) : s[j] # "n" /\ \A m \in i..(j-1) : s[m] = "n"
    ELSE Len(s) + 1

RECURSIVE ParseValue(_, _)
RECURSIVE ParseMembers(_, _, _)

\* the members of an object from position i; some is TRUE once a member
\* with a trailing comma has been read (a member must follow)
ParseMembers(s, i, some) ==
    LET j == SkipWs(s, i) IN
    IF j > Len(s) THEN NoValue
    ELSE IF s[j] = "}" THEN
        IF some THEN NoValue
        ELSE [NoValue EXCEPT !.ok = TRUE, !.next = j + 1, !.kind = "obj"]
    ELSE IF s[j] = "f" THEN ParseMembers(s, j + 1, TRUE)
    ELSE IF s[j] = "k" THEN
        LET v == ParseValue(s, j + 1)
            c == SkipWs(s, v.next)
        IN  IF v.ok /\ c <= Len(s) /\ s[c] = "}"
            THEN [ok |-> TRUE, next |-> c + 1, kind |-> "obj", str |-> << >>,
                  truthy |-> TRUE, has |-> TRUE, ckind |-> v.kind,
                  cstr |-> v.str, ctruthy |-> v.truthy]
            ELSE NoValue
    ELSE NoValue

ParseValue(s, i) ==
    LET j == SkipWs(s, i) IN
    IF j > Len(s) THEN NoValue
    ELSE IF s[j] = "s" THEN Scalar(j + 1, "str", <<"X">>, TRUE)
    ELSE IF s[j] = "e" THEN Scalar(j + 1, "str", << >>, FALSE)
    ELSE IF s[j] = "n" THEN Scalar(SkipDigits(s, j), "num", << >>, TRUE)
    ELSE IF s[j] = "{" THEN
        ParseMembers(s, j + 1, FALSE)
    ELSE NoValue

\* json.loads(s): one value, nothing but whitespace after it
JsonLoads(s) ==
    LET v == ParseValue(s, 1) IN
    IF v.ok /\ SkipWs(s, v.next) > Len(s) THEN v ELSE NoValue

\* ----------------------------------------------------- response extraction
\* variant: without the "if not content" test of line 139
NoCheck_ExtractContent(response) ==
    LET start    == PyFind(response, "{")
        end      == PyRFind(response, "}") + 1
        json_str == PySlice(response, start, end)
        data     == JsonLoads(json_str)
    IN  IF data.ok /\ data.kind = "obj" /\ data.has
        THEN [content |-> data.cstr, isstr |-> data.ckind = "str"]
        ELSE [content |-> response, isstr |-> TRUE]

\* variant: end = response.rfind('}') without the + 1 of line 135
OffByOne_ExtractContent(response) ==
    LET start    == PyFind(response, "{")
        end      == PyRFind(response, "}")
        json_str == PySlice(response, start, end)
        data     == JsonLoads(json_str)
    IN  IF data.ok /\ data.kind = "obj" /\ data.has /\ data.ctruthy
        THEN [content |-> data.cstr, isstr |-> data.ckind = "str"]
        ELSE [content |-> response, isstr |-> TRUE]

\* _write_from_response, lines 133-142: the content to write, and whether
\* it is a string (write_text raises TypeError for any other content)
ExtractContent(response) ==
    LET start    == PyFind(response, "{")
        end      == PyRFind(response, "}") + 1
        json_str == PySlice(response, start, end)
        data     == JsonLoads(json_str)
    IN  \* data.get("content", "") on a dict; "not content" raises ValueError,
        \* every exception of the try block falls back to the raw response
        IF data.ok /\ data.kind = "obj" /\ data.has /\ data.ctruthy
        THEN [content |-> data.cstr, isstr |-> data.ckind = "str"]
        ELSE [content |-> response, isstr |-> TRUE]

\* ------------------------------------------------------------ file system
\* A path is a sequence of components, a component a string.  The file
\* system is a function from the paths of its files to their contents; a
\* directory exists when a file lies below it.
Comp(name) == <<name>>

BASE_DIR     == << Comp("base") >>
TEMPLATE_DIR == BASE_DIR \o << Comp("Empty_Activity_android_studio_base_template") >>
OUTPUT_DIR   == BASE_DIR \o << Comp("output_projects") >>

IsPrefix(d, p) == Len(d) <= Len(p) /\ SubSeq(p, 1, Len(d)) = d
Below(d, p)    == Len(d) < Len(p) /\ IsPrefix(d, p)
RelTo(d, p)    == SubSeq(p, Len(d) + 1, Len(p))

\* Path.exists()
Exists(f, d) == d \in DOMAIN f \/ \E p \in DOMAIN f : Below(d, p)
IsDir(f, d)  == \E p \in DOMAIN f : Below(d, p)

\* the files of directory d, by their paths relative to d
Tree(f, d) == [r \in {RelTo(d, p) : p \in {q \in DOMAIN f : Below(d, q)}} |-> f[d \o r]]

\* shutil.rmtree(d)
RmTree(f, d) == [p \in {q \in DOMAIN f : ~IsPrefix(d, q)} |-> f[p]]

\* shutil.copytree(src, dst), dst absent
CopyTree(f, src, dst) ==
    LET t == Tree(f, src)
    IN  [p \in DOMAIN f \cup {dst \o r : r \in DOMAIN t} |->
            IF Below(dst, p) /\ RelTo(dst, p) \in DOMAIN t THEN t[RelTo(dst, p)] ELSE f[p]]

\* Path.unlink()
Unlink(f, p) == [q \in DOMAIN f \ {p} |-> f[q]]

\* Path.write_text(text), parents made beforehand
WriteText(f, p, text) == [q \in DOMAIN f \cup {p} |-> IF q = p THEN text ELSE f[q]]

\* Path.read_text(), "" when the read raises (the callers' except branch)
ReadOrEmpty(f, p) == IF p \in DOMAIN f THEN f[p] ELSE << >>

\* the components of a name split at "/"
RECURSIVE SplitSlash(_)
SplitSlash(s) ==
    IF \A i \in 1..Len(s) : s[i] # "/" THEN << s >>
    ELSE LET i == PyFind(s, "/") + 1
         IN  << SubSeq(s, 1, i - 1) >> \o SplitSlash(SubSeq(s, i + 1, Len(s)))

\* pathlib drops empty and "." components; the operating system resolves
\* ".." to the parent (every directory on the way exists here)
RECURSIVE Resolve(_, _)
Resolve(acc, comps) ==
    IF comps = << >> THEN acc
    ELSE LET c == Head(comps) IN
         IF c = << >> \/ c = <<".">> THEN Resolve(acc, Tail(comps))
         ELSE IF c = <<".", ".">>
         THEN Resolve(IF acc = << >> THEN acc ELSE SubSeq(acc, 1, Len(acc) - 1), Tail(comps))
         ELSE Resolve(Append(acc, c), Tail(comps))

\* base / name: an absolute name replaces the base
JoinPath(base, name) ==
    Resolve(IF Len(name) > 0 /\ name[1] = "/" THEN << >> ELSE base, SplitSlash(name))

\* stage-specific relative paths (agent_tool.py lines 59, 66, 154, 176, 194, 214, 232)
REL_LOCAL_PROPS == << Comp("local.properties") >>
REL_SETTINGS    == << Comp("settings.gradle.kts") >>
REL_MAIN        == << Comp("app"), Comp("MainActivity.kt") >>
REL_LAYOUT      == << Comp("app"), Comp("activity_main.xml") >>
REL_MANIFEST    == << Comp("app"), Comp("AndroidManifest.xml") >>
REL_GRADLE      == << Comp("app"), Comp("build.gradle.kts") >>
REL_STRINGS     == << Comp("app"), Comp("strings.xml") >>

\* --------------------------------------------------------- file contents
\* settings.gradle.kts holds the line naming the root project as one token
SETTINGS_OLD  == "rootProject.name = \"Empty_Activity_android_studio_base_template\""
SETTINGS_HEAD == "rootProject.name = \""
QUOTE         == "\""
\* strings.xml holds  <string name="app_name"> ... </string>
STR_OPEN      == "<string name=\"app_name\">"
STR_CLOSE     == "</string>"

\* str.replace(old, new) for a one-token old
RECURSIVE Replace(_, _, _)
Replace(text, old, new) ==
    IF text = << >> THEN << >>
    ELSE (IF Head(text) = old THEN new ELSE << Head(text) >>) \o Replace(Tail(text), old, new)

\* the skeleton, by relative path; two of its files are optional
TemplateTree(hasLocal, hasLayout) ==
    LET rels == {REL_SETTINGS, REL_MAIN, REL_MANIFEST, REL_GRADLE, REL_STRINGS}
                \cup (IF hasLocal THEN {REL_LOCAL_PROPS} ELSE {})
                \cup (IF hasLayout THEN {REL_LAYOUT} ELSE {})
    IN  [r \in rels |->
            IF r = REL_SETTINGS THEN << "pluginManagement", SETTINGS_OLD >>
            ELSE IF r = REL_STRINGS THEN << STR_OPEN, "o", "l", "d", STR_CLOSE >>
            ELSE << "template", r[Len(r)][1] >>]

TemplateFS(hasLocal, hasLayout) ==
    LET t == TemplateTree(hasLocal, hasLayout)
    IN  [p \in {TEMPLATE_DIR \o r : r \in DOMAIN t} |-> t[RelTo(TEMPLATE_DIR, p)]]
\* strings.xml of the skeleton without an app_name entry
STRINGS_PLAIN == << "<resources/>" >>

\* the skeleton with its strings.xml as it is ("named"), without the
\* app_name entry ("plain") or without the file ("missing")
WithStrings(f, variant) ==
    LET sp == TEMPLATE_DIR \o REL_STRINGS IN
    IF variant = "missing" THEN [p \in DOMAIN f \ {sp} |-> f[p]]
    ELSE IF variant = "plain" THEN [f EXCEPT ![sp] = STRINGS_PLAIN]
    ELSE f


\* ---------------------------------------------------------- _copy_template
\* variant: without the rmtree of lines 55-56 (the copy merges into the
\* directory that is there)
NoRmTree_CopyTemplate(f, project_name) ==
    LET target_dir == JoinPath(OUTPUT_DIR, project_name)
        f2 == CopyTree(f, TEMPLATE_DIR, target_dir)
        lp == target_dir \o REL_LOCAL_PROPS
        f3 == IF lp \in DOMAIN f2 THEN Unlink(f2, lp) ELSE f2
        sg == target_dir \o REL_SETTINGS
        f4 == IF sg \in DOMAIN f3
              THEN WriteText(f3, sg, Replace(f3[sg], SETTINGS_OLD,
                                             << SETTINGS_HEAD >> \o project_name \o << QUOTE >>))
              ELSE f3
    IN  [fs |-> f4, target |-> target_dir, raised |-> FALSE]

\* lines 52-77: the file system afterwards, the directory returned, and
\* whether rmtree or copytree raised
CopyTemplate(f, project_name) ==
    LET target_dir == JoinPath(OUTPUT_DIR, project_name)
        \* rmtree raises on a plain file and leaves everything in place
        f1 == IF Exists(f, target_dir) /\ target_dir \notin DOMAIN f
              THEN RmTree(f, target_dir) ELSE f
        f2 == CopyTree(f1, TEMPLATE_DIR, target_dir)
        lp == target_dir \o REL_LOCAL_PROPS
        f3 == IF lp \in DOMAIN f2 THEN Unlink(f2, lp) ELSE f2
        sg == target_dir \o REL_SETTINGS
        f4 == IF sg \in DOMAIN f3
              THEN WriteText(f3, sg, Replace(f3[sg], SETTINGS_OLD,
                                             << SETTINGS_HEAD >> \o project_name \o << QUOTE >>))
              ELSE f3
    IN  IF target_dir \in DOMAIN f \/ ~IsDir(f1, TEMPLATE_DIR)
        THEN [fs |-> f1, target |-> target_dir, raised |-> TRUE]
        ELSE [fs |-> f4, target |-> target_dir, raised |-> FALSE]

\* variant: the display name is written over the manifest
Clobber_UpdateStringsXml(f, target_dir, app_name) ==
    WriteText(f, target_dir \o REL_MANIFEST, app_name)
\* ----------------------------------------------- the replacement template
\* line 237 puts the name right behind the group reference \1, and re.sub
\* parses the two together: a digit behind \1 extends the reference
DIGITS == {"0", "1", "2", "3", "4", "5", "6", "7", "8", "9"}
OCTDIGITS == {"0", "1", "2", "3", "4", "5", "6", "7"}

\* the character that an octal escape stands for
OCTAL_CHAR == "<octal>"

\* \1 and two octal digits are read as one character code
OctalEscape(app_name) ==
    /\ Len(app_name) >= 2
    /\ app_name[1] \in OCTDIGITS
    /\ app_name[2] \in OCTDIGITS

\* \1 and one more digit name a group the pattern does not have: re.error
TemplateError(app_name) ==
    /\ Len(app_name) >= 1
    /\ app_name[1] \in DIGITS
    /\ ~OctalEscape(app_name)


\* ------------------------------------------------------ _update_strings_xml
\* lines 231-242: re.sub of the first <string name="app_name">...</string>
\* (the lazy group stops at the first closing tag and never crosses a newline)
UpdateStringsXml(f, target_dir, app_name) ==
    LET sp   == target_dir \o REL_STRINGS
        text == f[sp]
        hit(i, j) == /\ i < j /\ text[i] = STR_OPEN /\ text[j] = STR_CLOSE
                     /\ \A m \in (i+1)..(j-1) : text[m] \notin {STR_CLOSE, "\n"}
    IN  IF sp \notin DOMAIN f THEN f
        ELSE IF TemplateError(app_name) THEN f
        ELSE IF ~\E i, j \in 1..Len(text) : hit(i, j) THEN f
        ELSE IF OctalEscape(app_name)
        THEN LET i == CHOOSE a \in 1..Len(text) :
                        /\ \E b \in 1..Len(text) : hit(a, b)
                        /\ \A c \in 1..(a-1) : ~\E b \in 1..Len(text) : hit(c, b)
                 j == CHOOSE b \in 1..Len(text) : hit(i, b)
             IN  WriteText(f, sp, SubSeq(text, 1, i - 1)
                                  \o << OCTAL_CHAR >>
                                  \o SubSeq(app_name, 3, Len(app_name))
                                  \o SubSeq(text, j, Len(text)))
        ELSE LET i == CHOOSE a \in 1..Len(text) :
                        /\ \E b \in 1..Len(text) : hit(a, b)
                        /\ \A c \in 1..(a-1) : ~\E b \in 1..Len(text) : hit(c, b)
                 j == CHOOSE b \in 1..Len(text) : hit(i, b)
             IN  WriteText(f, sp, SubSeq(text, 1, i) \o app_name \o SubSeq(text, j, Len(text)))

\* ------------------------------------------------------- program constants
\* range(4): attempts per OpenRouter invocation
MAX_ATTEMPTS == 4
\* attempt < 3: the attempts that are followed by a wait
LAST_ATTEMPT == 3
\* [:40]: the cap on the app name
NAME_CAP == 40
\* the statuses the retry loop names transient
TRANSIENT == {408, 429, 500, 502, 503, 504, 524, 529}

MYAPP == <<"M", "y", "A", "p", "p">>

RECURSIVE Pow2(_)
Pow2(n) == IF n = 0 THEN 1 ELSE 2 * Pow2(n - 1)

\* str.lower() of the provider names drawn below
Lower(provider) ==
    IF provider = "OpenRouter" THEN "openrouter"
    ELSE IF provider = "Gemini" THEN "gemini"
    ELSE provider

\* (arg or "").strip() of the constructor arguments drawn below
StripArg(arg) == IF arg = "  " THEN "" ELSE arg

\* ------------------------------------------------------------ input samples
Rep(c, n) == [i \in 1..n |-> c]

\* raw replies of the backend to the name instruction
NameReplies ==
    { << >>, << "\n" >>, << " ", "a", "\n" >>, << "9", "\n", "b" >>, Rep("c", NAME_CAP + 1) }

\* raw reply to the plan instruction
PlanReplies == { << "p", "l" >> }

\* raw replies to a file instruction: a structured object, prose with
\* whitespace around it, an object whose content is a number
FileReplies ==
    { << "{", "f", "k", "s", "}" >>, << " ", "p", " " >>, << "{", "k", "n", "}" >> }

\* outcomes of one HTTP attempt: requests.post raising, or a status and a body
StatusSamples == {200, 401, 429, 503}
Outcomes ==
    {[net |-> "timeout", status |-> 0, body |-> "none"]}
    \cup {[net |-> "http", status |-> st, body |-> b] :
            st \in StatusSamples, b \in {"reply", "malformed"}}
\* the outcomes drawn inside a pipeline run: a timeout, a refusal, a reply
RunOutcomes ==
    {[net |-> "timeout", status |-> 0, body |-> "none"],
     [net |-> "http", status |-> 401, body |-> "malformed"],
     [net |-> "http", status |-> 200, body |-> "reply"]}

\* ------------------------------------------------------------------- state
VARIABLES
    self,         \* the AndroidAgent's fields
    installed,    \* the local runtimes that can be imported
    should_stop,  \* what the cancellation predicate returns when polled
    fs,           \* the file system
    pc,           \* where run() stands
    target_dir,   \* run()'s local variable
    done,         \* the steps of run() completed so far, in order
    replaced,     \* whether _copy_template found the target directory present
    ctx,          \* the extra context each file stage built
    call,         \* the model client invocation in progress
    outcome,      \* how run() ended
    ex,           \* the extractor applied to one drawn raw response
    sink,         \* the notifications on which the caller's progress sink raises
    trace,        \* what run() did so far: notifications, client calls, file writes
    runs,         \* the agents that run side by side on one file system
    host          \* the desktop window: its button, its worker and the queued signals

vars == <<self, installed, should_stop, fs, pc, target_dir, done, replaced, ctx, call, outcome, ex,
         sink, trace, runs, host>>

NoCause == [type |-> "none", status |-> 0, attempt |-> 0 - 1]
NoError == [type |-> "none", msg |-> "", cause |-> NoCause]
Error(t, m, c) == [type |-> t, msg |-> m, cause |-> c]

IdleCall ==
    [phase |-> "idle", api |-> FALSE, cb |-> FALSE, provider |-> "", replies |-> {},
     outcomes |-> {},
     attempt |-> 0, wait |-> 0, waits |-> << >>, hist |-> << >>, last_err |-> NoCause,
     notes |-> << >>, result |-> << >>, error |-> NoError]

IdleEx == [phase |-> "idle", raw |-> << >>, content |-> << >>, raised |-> FALSE]

FILE_STAGES == {"logic", "layout", "manifest", "gradle"}

\* lines 30-44: the fields after __init__
NewAgent(api_provider, api_model, api_key, local_backend) ==
    [local_backend |-> local_backend,
     api_provider |-> StripArg(api_provider),
     api_model |-> StripArg(api_model),
     api_key |-> StripArg(api_key),
     app_name |-> << >>, architecture_plan |-> << >>,
     generated_main_activity |-> << >>, generated_layout |-> << >>,
     generated_manifest |-> << >>, generated_gradle |-> << >>]

\* variant: the key alone decides
KeyOnly_UseApi(a) == a.api_key # ""

\* line 80
UseApi(a) == a.api_provider # "" /\ a.api_model # "" /\ a.api_key # ""

\* the constructor arguments drawn: three remote configurations and the
\* local ones (a blank key, a missing provider), each local one with the
\* runtimes that may be installed
Configs ==
    {[provider |-> pr, model |-> "m", key |-> "key", backend |-> "gpt4all", installed |-> {}] :
        pr \in {"OpenRouter", "Gemini", "Claude"}}
    \cup {[provider |-> "OpenRouter", model |-> "m", key |-> "  ", backend |-> "gpt4all",
           installed |-> i] : i \in {{}, {"gpt4all"}}}
    \cup {[provider |-> "OpenRouter", model |-> "m", key |-> "  ", backend |-> "auto",
           installed |-> i] : i \in {{}, {"llama_cpp", "ctransformers"}, {"ctransformers"}}}
    \cup {[provider |-> "", model |-> "m", key |-> "key", backend |-> "gpt4all",
           installed |-> {"gpt4all"}]}

\* ------------------------------------------------------------ notifications
\* the notifications of run() (lines 249, 260, 171, 148, 279) and of the
\* clients ("Contacting ...", "... busy (retrying in ...)", "Starting the AI
\* engine...", "AI engine is ready.")
NOTE_KINDS ==
    {"setup", "planning", "stage", "preview", "success", "contacting", "retry", "engine", "ready"}

\* the progress sinks drawn: one that never raises, one that raises on every
\* notification, one that raises on some of them
SinkFaults == {{}, NOTE_KINDS, {"contacting", "stage", "success"}}
\* the sinks drawn inside a pipeline run: the quiet one (with every initial
\* file system) and one that raises on some notifications of run() and of
\* the clients and not on others (with the full template)
RunSinks == {{}, {"setup", "stage", "success", "contacting", "retry", "ready"}}

\* variant: the sink called without try / except
Bare_TryNotify(kind) == IF kind \in sink THEN "escaped" ELSE "delivered"

\* agent_tool.py lines 46-50, api_llm_responder.py lines 8-13,
\* llm_responder.py lines 76-80: try: notify(message) / except Exception: pass
TryNotify(kind) == IF kind \in sink THEN "swallowed" ELSE "delivered"

\* self._notify(message) in run() and the stages
AgentNotify(notes, kind, stage) ==
    Append(notes, [kind |-> kind, stage |-> stage, result |-> TryNotify(kind)])

\* where run() and its client stood when the caller asked for cancellation
NoStop == [step |-> "", at |-> "", waiting |-> FALSE]

NoTrace == [notes |-> << >>, calls |-> << >>, writes |-> << >>, stop |-> NoStop]

\* no agents side by side
NoRuns == << >>

\* the window after MainWindow.__init__: the button enabled, no worker, no
\* idea typed
NoHost == [button |-> TRUE, running |-> 0, started |-> 0, finals |-> 0, queue |-> << >>,
           log |-> {}, cfg_ok |-> TRUE, idea |-> FALSE]

\* ------------------------------------------------------------------- Init
At(step, at) == [step |-> step, at |-> at]

STEPS == <<"name", "materialize", "plan", "logic", "layout", "manifest", "gradle", "post">>

StepIndex(step) == CHOOSE i \in 1..Len(STEPS) : STEPS[i] = step

\* variant: the logic stage runs again after the layout stage
Repeat_AfterStep(step) ==
    IF step = "post" THEN At("finish", "start")
    ELSE IF step = "gradle" THEN At("post", "start")
    ELSE IF step = "layout" THEN At("logic", "gate")
    ELSE At(STEPS[StepIndex(step) + 1], "gate")

\* variant: the manifest stage left out of the order
SkipManifest_AfterStep(step) ==
    IF step = "post" THEN At("finish", "start")
    ELSE IF step = "gradle" THEN At("post", "start")
    ELSE IF step = "layout" THEN At("gradle", "gate")
    ELSE At(STEPS[StepIndex(step) + 1], "gate")

\* where run() stands once `step` has completed: the next gate, except that
\* _update_strings_xml (line 277) follows _generate_gradle with no gate
AfterStep(step) ==
    IF step = "post" THEN At("finish", "start")
    ELSE IF step = "gradle" THEN At("post", "start")
    ELSE At(STEPS[StepIndex(step) + 1], "gate")

\* variant: the layout stage writes where the logic stage wrote
Shifted_RelOf(stage) ==
    IF stage = "logic" THEN REL_MAIN
    ELSE IF stage = "layout" THEN REL_MAIN
    ELSE IF stage = "manifest" THEN REL_MANIFEST
    ELSE REL_GRADLE

RelOf(stage) ==
    IF stage = "logic" THEN REL_MAIN
    ELSE IF stage = "layout" THEN REL_LAYOUT
    ELSE IF stage = "manifest" THEN REL_MANIFEST
    ELSE REL_GRADLE

\* what an earlier complete run under `name` left behind
PreviousRun(f, name) ==
    LET c  == CopyTemplate(f, name)
        w1 == WriteText(c.fs, c.target \o REL_MAIN, << "old", "logic" >>)
        w2 == WriteText(w1, c.target \o REL_LAYOUT, << "old", "layout" >>)
        w3 == WriteText(w2, c.target \o REL_MANIFEST, << "old", "manifest" >>)
        w4 == WriteText(w3, c.target \o REL_GRADLE, << "old", "gradle" >>)
    IN  UpdateStringsXml(w4, c.target, name)

InitialFileSystems ==
    LET bare == {TemplateFS(l, y) : l \in BOOLEAN, y \in BOOLEAN}
    IN  bare
        \cup {PreviousRun(TemplateFS(l, l), << "a" >>) : l \in BOOLEAN}
        \cup {WithStrings(TemplateFS(FALSE, TRUE), v) : v \in {"plain", "missing"}}

NoOutcome == [kind |-> "none", value |-> << >>, error |-> NoError]

NoCtx == [s \in FILE_STAGES |-> << >>]

Init ==
    /\ \E c \in Configs :
        /\ self = NewAgent(c.provider, c.model, c.key, c.backend)
        /\ installed = c.installed
    /\ should_stop = FALSE
    /\ \E f \in InitialFileSystems, s \in RunSinks :
        /\ s = {} \/ f = TemplateFS(TRUE, TRUE)
        /\ fs = f
        /\ sink = s
    /\ pc = At("name", "gate")
    /\ target_dir = << >>
    /\ done = << >>
    /\ replaced = FALSE
    /\ ctx = NoCtx
    /\ call = IdleCall
    /\ outcome = NoOutcome
    /\ ex = IdleEx
    /\ trace = NoTrace
    /\ runs = NoRuns
    /\ host = NoHost

\* ------------------------------------------------------- the model client
Note(kind, wait) == [kind |-> kind, wait |-> wait]

\* _notify(progress_cb, msg): nothing without a callback
Notify(c, note) ==
    IF c.cb
    THEN Append(c.notes, [kind |-> note.kind, wait |-> note.wait, result |-> TryNotify(note.kind)])
    ELSE c.notes

\* the invocation a stage starts: _ask_app_name and _ask_architecture pass
\* no progress_cb (lines 88, 96, 106, 113), _llm_call passes self._notify
BeginCall(a, cb, replies, outcomes) ==
    [IdleCall EXCEPT !.phase = IF UseApi(a) THEN "api" ELSE "local",
                     !.api = UseApi(a), !.cb = cb, !.replies = replies,
                     !.outcomes = outcomes,
                     !.provider = Lower(a.api_provider)]

\* api_llm_responder.py lines 35-45 and 85
ApiBegin ==
    /\ call.phase = "api"
    /\ call' = IF call.provider \notin {"openrouter", "gemini"}
               THEN [call EXCEPT !.phase = "raised",
                                 !.error = Error("ValueError", "Unsupported provider", NoCause)]
               ELSE IF call.provider = "openrouter"
               THEN [call EXCEPT !.phase = "post", !.notes = Notify(call, Note("contacting", 0))]
               ELSE [call EXCEPT !.phase = "gemini", !.notes = Notify(call, Note("contacting", 0))]
    /\ UNCHANGED <<self, installed, should_stop, fs, pc, target_dir, done, replaced, ctx, outcome, ex, sink, trace,
                   runs, host>>

\* how the spec classes an attempt's outcome
IsTransient(o) == o.net = "timeout" \/ (o.net = "http" /\ o.status \in TRANSIENT)
Succeeds(o)    == o.net = "http" /\ o.status \notin TRANSIENT /\ o.status < 400 /\ o.body = "reply"
ClassOf(o)     == IF Succeeds(o) THEN "ok" ELSE IF IsTransient(o) THEN "transient" ELSE "fatal"

\* the exception one attempt ends in
Failure(o, attempt) ==
    [type |-> IF o.net = "timeout" THEN "Timeout"
              ELSE IF o.status \in TRANSIENT \/ o.status >= 400 THEN "HTTPError"
              ELSE "KeyError",
     status |-> o.status, attempt |-> attempt]

\* variant: attempt < 4 in place of attempt < 3 at line 76
OneMore_OnException(c, e, cls) ==
    IF c.attempt < LAST_ATTEMPT + 1
    THEN [c EXCEPT !.last_err = e, !.hist = Append(@, cls), !.wait = Pow2(c.attempt),
                   !.notes = Notify(c, Note("retry", Pow2(c.attempt))), !.phase = "sleep"]
    ELSE [c EXCEPT !.last_err = e, !.hist = Append(@, cls), !.phase = "raised",
                   !.error = Error("RuntimeError", "OpenRouter request failed", e)]

\* lines 74-81: what the except branch does with the exception e
OnException(c, e, cls) ==
    IF c.attempt < LAST_ATTEMPT
    THEN [c EXCEPT !.last_err = e, !.hist = Append(@, cls), !.wait = Pow2(c.attempt),
                   !.notes = Notify(c, Note("retry", Pow2(c.attempt))), !.phase = "sleep"]
    ELSE [c EXCEPT !.last_err = e, !.hist = Append(@, cls), !.phase = "raised",
                   !.error = Error("RuntimeError", "OpenRouter request failed", e)]

\* lines 66-73: one pass of the retry loop up to the return or the exception
OpenRouterAttempt ==
    /\ call.phase = "post"
    /\ \E o \in call.outcomes, text \in call.replies :
        call' = IF Succeeds(o)
                THEN [call EXCEPT !.phase = "returned", !.result = PyStrip(text),
                                  !.hist = Append(@, "ok")]
                ELSE OnException(call, Failure(o, call.attempt), ClassOf(o))
    /\ UNCHANGED <<self, installed, should_stop, fs, pc, target_dir, done, replaced, ctx, outcome, ex, sink, trace,
                   runs, host>>

\* variant: the wait polls the cancellation predicate and gives up
Polling_OpenRouterSleep ==
    /\ call.phase = "sleep"
    /\ call.attempt + 1 < MAX_ATTEMPTS
    /\ call' = IF should_stop
               THEN [call EXCEPT !.phase = "raised",
                                 !.error = Error("RuntimeError", "Operation cancelled", NoCause)]
               ELSE [call EXCEPT !.waits = Append(@, call.wait), !.attempt = @ + 1, !.phase = "post"]
    /\ UNCHANGED <<self, installed, should_stop, fs, pc, target_dir, done, replaced, ctx, outcome, ex, sink, trace,
                   runs, host>>
\* variant: after the wait the retry loop starts over with its first attempt
Restart_OpenRouterSleep ==
    /\ call.phase = "sleep"
    /\ call.attempt + 1 < MAX_ATTEMPTS
    /\ call' = [call EXCEPT !.waits = << >>, !.hist = << >>, !.attempt = 0, !.phase = "post",
                            !.notes = IF call.cb THEN SubSeq(@, 1, 1) ELSE @]
    /\ UNCHANGED <<self, installed, should_stop, fs, pc, target_dir, done, replaced, ctx, outcome, ex, sink, trace,
                   runs, host>>


\* line 79: time.sleep(wait) returns and the loop takes the next attempt
OpenRouterSleep ==
    /\ call.phase = "sleep"
    /\ call.attempt + 1 < MAX_ATTEMPTS
    /\ call' = [call EXCEPT !.waits = Append(@, call.wait), !.attempt = @ + 1, !.phase = "post"]
    /\ UNCHANGED <<self, installed, should_stop, fs, pc, target_dir, done, replaced, ctx, outcome, ex, sink, trace,
                   runs, host>>

\* lines 98-101: the single Gemini request, its exceptions not caught
GeminiAttempt ==
    /\ call.phase = "gemini"
    /\ \E o \in call.outcomes, text \in call.replies :
        call' = IF o.net = "http" /\ o.status < 400 /\ o.body = "reply"
                THEN [call EXCEPT !.phase = "returned", !.result = PyStrip(text),
                                  !.hist = Append(@, "ok")]
                ELSE LET e == Failure(o, 0) IN
                     [call EXCEPT !.phase = "raised", !.hist = Append(@, ClassOf(o)),
                                  !.last_err = e,
                                  !.error = Error(e.type, "gemini", NoCause)]
    /\ UNCHANGED <<self, installed, should_stop, fs, pc, target_dir, done, replaced, ctx, outcome, ex, sink, trace,
                   runs, host>>
\* llm_responder.py line 10: the directory of the local models
MODEL_CACHE_DIR == BASE_DIR \o << Comp("models") >>
MODEL_FILE      == MODEL_CACHE_DIR \o << Comp("model.gguf") >>

\* the entry that stands for a directory with no file in it
DIR_MARK == Comp("")

\* os.makedirs(d, exist_ok=True)
MkDir(f, d) == IF Exists(f, d) THEN f ELSE WriteText(f, d \o << DIR_MARK >>, << >>)

\* what the local client leaves on disk: GGUFModelManager.__init__ makes
\* the model directory (line 63); ensure_model fetches the model file for
\* the backends other than gpt4all (lines 88-102) before the runtime is
\* imported; the gpt4all runtime fetches it when it was imported (line 116)
LocalEffects(f, backend, runtimes) ==
    LET f1      == MkDir(f, MODEL_CACHE_DIR)
        fetched == IF MODEL_FILE \in DOMAIN f1 THEN f1
                   ELSE WriteText(f1, MODEL_FILE, << "weights" >>)
    IN  IF backend = "gpt4all" /\ "gpt4all" \notin runtimes THEN f1 ELSE fetched


\* llm_responder.py lines 104-179 behind build_llm_response: load the
\* runtime the backend names ("Starting the AI engine...", then "AI engine is
\* ready." when it loaded), then generate (only llama_cpp strips)
LocalCall ==
    /\ call.phase = "local"
    /\ \E text \in call.replies :
        call' =
          IF self.local_backend = "gpt4all"
          THEN IF "gpt4all" \in installed
               THEN [call EXCEPT !.phase = "returned", !.result = text,
                                 !.notes = Notify([call EXCEPT !.notes = Notify(call, Note("engine", 0))],
                                                  Note("ready", 0))]
               ELSE [call EXCEPT !.phase = "raised",
                                 !.notes = Notify(call, Note("engine", 0)),
                                 !.error = Error("RuntimeError", "Missing GPT4All runtime", NoCause)]
          ELSE IF "llama_cpp" \in installed
               THEN [call EXCEPT !.phase = "returned", !.result = PyStrip(text),
                                 !.notes = Notify([call EXCEPT !.notes = Notify(call, Note("engine", 0))],
                                                  Note("ready", 0))]
          ELSE IF "ctransformers" \in installed
               THEN [call EXCEPT !.phase = "returned", !.result = text,
                                 !.notes = Notify([call EXCEPT !.notes = Notify(call, Note("engine", 0))],
                                                  Note("ready", 0))]
          ELSE [call EXCEPT !.phase = "raised",
                            !.notes = Notify(call, Note("engine", 0)),
                            !.error = Error("RuntimeError", "Missing LLM runtime", NoCause)]
    /\ fs' = LocalEffects(fs, self.local_backend, installed)
    /\ UNCHANGED <<self, installed, should_stop, pc, target_dir, done, replaced, ctx, outcome, ex, sink, trace,
                   runs, host>>

\* ------------------------------------------------------------- the pipeline
\* line 97: (name or "MyApp").strip().replace("\n", " ")[:40]
AskAppName(name) ==
    PySlice(Replace(PyStrip(IF name = << >> THEN MYAPP ELSE name), "\n", << " " >>), 0, NAME_CAP)

\* variant: the gate raises the error of a missing local runtime
Same_CANCELLED == Error("RuntimeError", "Missing GPT4All runtime", NoCause)

CANCELLED == Error("RuntimeError", "Operation cancelled", NoCause)

Raise(e) ==
    /\ outcome' = [kind |-> "raised", value |-> << >>, error |-> e]
    /\ pc' = At(pc.step, "raised")

\* variant: without the poll of line 267 in front of the layout stage
SkipLayout_Gate ==
    /\ pc.at = "gate"
    /\ IF should_stop /\ pc.step # "layout"
       THEN Raise(CANCELLED)
       ELSE pc' = At(pc.step, "start") /\ UNCHANGED outcome
    /\ UNCHANGED <<self, installed, should_stop, fs, target_dir, done, replaced, ctx, call, ex, sink, trace,
                   runs, host>>

\* lines 247, 253, 258, 264, 267, 270, 273: if self.should_stop(): raise
Gate ==
    /\ pc.at = "gate"
    /\ IF should_stop
       THEN Raise(CANCELLED)
       ELSE pc' = At(pc.step, "start") /\ UNCHANGED outcome
    /\ UNCHANGED <<self, installed, should_stop, fs, target_dir, done, replaced, ctx, call, ex, sink, trace,
                   runs, host>>

\* lines 249-250 and 260-261 up to the client call
AskStart ==
    /\ pc.at = "start"
    /\ pc.step \in {"name", "plan"}
    /\ call' = BeginCall(self, FALSE, IF pc.step = "name" THEN NameReplies ELSE PlanReplies,
                       RunOutcomes)
    /\ trace' = [trace EXCEPT
                    !.notes = AgentNotify(@, IF pc.step = "name" THEN "setup" ELSE "planning", pc.step),
                    !.calls = Append(@, [stage |-> pc.step, api |-> UseApi(self)])]
    /\ pc' = At(pc.step, "wait")
    /\ UNCHANGED <<self, installed, should_stop, fs, target_dir, done, replaced, ctx, outcome, ex, sink,
                   runs, host>>

\* line 250: self.app_name = self._ask_app_name(idea)
NameFinish ==
    /\ pc = At("name", "wait")
    /\ call.phase = "returned"
    /\ self' = [self EXCEPT !.app_name = AskAppName(call.result)]
    /\ done' = Append(done, "name")
    /\ pc' = AfterStep("name")
    /\ call' = IdleCall
    /\ UNCHANGED <<installed, should_stop, fs, target_dir, replaced, ctx, outcome, ex, sink, trace,
                   runs, host>>

\* line 255: target_dir = self._copy_template(self.app_name)
Materialize ==
    /\ pc = At("materialize", "start")
    /\ LET r == CopyTemplate(fs, self.app_name) IN
        /\ fs' = r.fs
        /\ IF r.raised
           THEN Raise(Error("OSError", "copy failed", NoCause)) /\ UNCHANGED <<target_dir, done, replaced>>
           ELSE /\ target_dir' = r.target
                /\ replaced' = Exists(fs, r.target)
                /\ done' = Append(done, "materialize")
                /\ pc' = AfterStep("materialize")
                /\ UNCHANGED outcome
    /\ UNCHANGED <<self, installed, should_stop, ctx, call, ex, sink, trace, runs, host>>

\* line 261: self.architecture_plan = self._ask_architecture(idea, self.app_name)
PlanFinish ==
    /\ pc = At("plan", "wait")
    /\ call.phase = "returned"
    /\ self' = [self EXCEPT !.architecture_plan = call.result]
    /\ done' = Append(done, "plan")
    /\ pc' = AfterStep("plan")
    /\ call' = IdleCall
    /\ UNCHANGED <<installed, should_stop, fs, target_dir, replaced, ctx, outcome, ex, sink, trace,
                   runs, host>>

\* variant: layout and manifest read the output of the wrong stage
Swapped_ExtraContext(a, stage) ==
    IF stage = "logic"
    THEN << "App name: " >> \o a.app_name \o << "\nArchitecture plan (optional):\n" >>
         \o a.architecture_plan
    ELSE IF stage = "layout"
    THEN << "MainActivity.kt just generated:\n" >> \o a.generated_layout
    ELSE IF stage = "manifest"
    THEN << "MainActivity.kt:\n" >> \o a.generated_main_activity
         \o << "\n\nactivity_main.xml:\n" >> \o a.generated_manifest
    ELSE << "MainActivity.kt:\n" >> \o a.generated_layout

\* lines 170, 186-188, 205-208, 224-226: the extra context of each stage
ExtraContext(a, stage) ==
    IF stage = "logic"
    THEN << "App name: " >> \o a.app_name \o << "\nArchitecture plan (optional):\n" >>
         \o a.architecture_plan
    ELSE IF stage = "layout"
    THEN << "MainActivity.kt just generated:\n" >> \o a.generated_main_activity
    ELSE IF stage = "manifest"
    THEN << "MainActivity.kt:\n" >> \o a.generated_main_activity
         \o << "\n\nactivity_main.xml:\n" >> \o a.generated_layout
    ELSE << "MainActivity.kt:\n" >> \o a.generated_main_activity
\* variant: the stage opens its file for writing before it calls the client
Truncating_FileStart ==
    /\ pc.at = "start"
    /\ pc.step \in FILE_STAGES
    /\ fs' = WriteText(fs, target_dir \o RelOf(pc.step), << >>)
    /\ ctx' = [ctx EXCEPT ![pc.step] = ExtraContext(self, pc.step)]
    /\ call' = BeginCall(self, TRUE, FileReplies, RunOutcomes)
    /\ trace' = [trace EXCEPT !.notes = AgentNotify(@, "stage", pc.step),
                              !.calls = Append(@, [stage |-> pc.step, api |-> UseApi(self)])]
    /\ pc' = At(pc.step, "wait")
    /\ UNCHANGED <<self, installed, should_stop, target_dir, done, replaced, outcome, ex, sink,
                   runs, host>>


\* _generate_* up to the client call (e.g. lines 154-172)
FileStart ==
    /\ pc.at = "start"
    /\ pc.step \in FILE_STAGES
    /\ ctx' = [ctx EXCEPT ![pc.step] = ExtraContext(self, pc.step)]
    /\ call' = BeginCall(self, TRUE, FileReplies, RunOutcomes)
    /\ trace' = [trace EXCEPT !.notes = AgentNotify(@, "stage", pc.step),
                              !.calls = Append(@, [stage |-> pc.step, api |-> UseApi(self)])]
    /\ pc' = At(pc.step, "wait")
    /\ UNCHANGED <<self, installed, should_stop, fs, target_dir, done, replaced, outcome, ex, sink,
                   runs, host>>

\* variant: recording the build configuration also replaces the recorded
\* main activity
Overwrite_Record(a, stage, content) ==
    IF stage = "logic" THEN [a EXCEPT !.generated_main_activity = content]
    ELSE IF stage = "layout" THEN [a EXCEPT !.generated_layout = content]
    ELSE IF stage = "manifest" THEN [a EXCEPT !.generated_manifest = content]
    ELSE [a EXCEPT !.generated_gradle = content, !.generated_main_activity = content]


Record(a, stage, content) ==
    IF stage = "logic" THEN [a EXCEPT !.generated_main_activity = content]
    ELSE IF stage = "layout" THEN [a EXCEPT !.generated_layout = content]
    ELSE IF stage = "manifest" THEN [a EXCEPT !.generated_manifest = content]
    ELSE [a EXCEPT !.generated_gradle = content]

\* _write_from_response and the assignment of its result (e.g. line 173);
\* write_text raises TypeError before opening the file when content is no str
FileFinish ==
    /\ pc.at = "wait"
    /\ pc.step \in FILE_STAGES
    /\ call.phase = "returned"
    /\ LET r == ExtractContent(call.result) IN
        IF r.isstr
        THEN /\ fs' = WriteText(fs, target_dir \o RelOf(pc.step), r.content)
             /\ trace' = [trace EXCEPT
                             !.writes = Append(@, [stage |-> pc.step,
                                                   path |-> target_dir \o RelOf(pc.step),
                                                   content |-> r.content, reply |-> call.result]),
                             !.notes = AgentNotify(@, "preview", pc.step)]
             /\ self' = Record(self, pc.step, r.content)
             /\ done' = Append(done, pc.step)
             /\ pc' = AfterStep(pc.step)
             /\ UNCHANGED outcome
        ELSE /\ Raise(Error("TypeError", "data must be str", NoCause))
             /\ UNCHANGED <<fs, self, done, trace>>
    /\ call' = IdleCall
    /\ UNCHANGED <<installed, should_stop, target_dir, replaced, ctx, ex, sink, runs, host>>

\* variant: the stage is started again after an error of the client
Retry_StageRaise ==
    /\ pc.at = "wait"
    /\ call.phase = "raised"
    /\ pc' = At(pc.step, "start")
    /\ call' = IdleCall
    /\ UNCHANGED <<self, installed, should_stop, fs, target_dir, done, replaced, ctx, outcome, ex,
                   sink, trace, runs, host>>

\* an exception of the client leaves run() through the stage that called it
StageRaise ==
    /\ pc.at = "wait"
    /\ call.phase = "raised"
    /\ Raise(call.error)
    /\ call' = IdleCall
    /\ UNCHANGED <<self, installed, should_stop, fs, target_dir, done, replaced, ctx, ex, sink, trace,
                   runs, host>>

\* variant: without the try/except of lines 233-242, a missing resource
\* file ends the run
Strict_PostProcess ==
    /\ pc = At("post", "start")
    /\ IF target_dir \o REL_STRINGS \notin DOMAIN fs
       THEN /\ Raise(Error("FileNotFoundError", "strings.xml", NoCause))
            /\ UNCHANGED <<fs, done>>
       ELSE /\ fs' = UpdateStringsXml(fs, target_dir, self.app_name)
            /\ done' = Append(done, "post")
            /\ pc' = AfterStep("post")
            /\ UNCHANGED outcome
    /\ UNCHANGED <<self, installed, should_stop, target_dir, replaced, ctx, call, ex, sink, trace,
                   runs, host>>


\* line 277: self._update_strings_xml(target_dir)
PostProcess ==
    /\ pc = At("post", "start")
    /\ LET sp == target_dir \o REL_STRINGS
           g  == UpdateStringsXml(fs, target_dir, self.app_name)
       IN  \/ fs' = g
           \* write_text raises when it opens the file: swallowed at line 241
           \/ g # fs /\ fs' = fs
           \* write_text raises after it has truncated the file
           \/ g # fs /\ fs' = WriteText(fs, sp, << >>)
    /\ done' = Append(done, "post")
    /\ pc' = AfterStep("post")
    /\ UNCHANGED <<self, installed, should_stop, target_dir, replaced, ctx, call, outcome, ex, sink, trace,
                   runs, host>>

\* variant: run() returns without the notification of line 279
Silent_Finish ==
    /\ pc = At("finish", "start")
    /\ outcome' = [kind |-> "returned", value |-> target_dir, error |-> NoError]
    /\ pc' = At("finish", "returned")
    /\ UNCHANGED <<self, installed, should_stop, fs, target_dir, done, replaced, ctx, call, ex,
                   sink, trace, runs, host>>

\* lines 279-280: the success notification and the return
Finish ==
    /\ pc = At("finish", "start")
    /\ trace' = [trace EXCEPT !.notes = AgentNotify(@, "success", "finish")]
    /\ outcome' = [kind |-> "returned", value |-> target_dir, error |-> NoError]
    /\ pc' = At("finish", "returned")
    /\ UNCHANGED <<self, installed, should_stop, fs, target_dir, done, replaced, ctx, call, ex, sink,
                   runs, host>>

\* the caller asks for cancellation while run() is under way
RequestStop ==
    /\ pc.at \notin {"raised", "returned", "off"}
    /\ ~should_stop
    /\ should_stop' = TRUE
    /\ trace' = [trace EXCEPT !.stop = [step |-> pc.step, at |-> pc.at,
                                            waiting |-> call.phase = "sleep"]]
    /\ UNCHANGED <<self, installed, fs, pc, target_dir, done, replaced, ctx, call, outcome, ex, sink,
                   runs, host>>

Next ==
    \/ Gate
    \/ AskStart
    \/ NameFinish
    \/ Materialize
    \/ PlanFinish
    \/ FileStart
    \/ FileFinish
    \/ StageRaise
    \/ PostProcess
    \/ Finish
    \/ RequestStop
    \/ ApiBegin
    \/ OpenRouterAttempt
    \/ OpenRouterSleep
    \/ GeminiAttempt
    \/ LocalCall

Spec == Init /\ [][Next]_vars
\* ------------------------------------------------- a run that is kept going
\* run() on the full skeleton with a sink that never raises
InitLive ==
    /\ \E c \in Configs :
        /\ self = NewAgent(c.provider, c.model, c.key, c.backend)
        /\ installed = c.installed
    /\ should_stop = FALSE
    /\ fs = TemplateFS(TRUE, TRUE)
    /\ sink = {}
    /\ pc = At("name", "gate")
    /\ target_dir = << >>
    /\ done = << >>
    /\ replaced = FALSE
    /\ ctx = NoCtx
    /\ call = IdleCall
    /\ outcome = NoOutcome
    /\ ex = IdleEx
    /\ trace = NoTrace
    /\ runs = NoRuns
    /\ host = NoHost

\* the steps of run() and of its client: every statement, backend call and
\* wait that is under way returns or fails
RunStep ==
    \/ Gate
    \/ AskStart
    \/ NameFinish
    \/ PlanFinish
    \/ FileStart
    \/ StageRaise
    \/ PostProcess
    \/ Finish
    \/ ApiBegin
    \/ OpenRouterAttempt
    \/ OpenRouterSleep
    \/ GeminiAttempt
    \/ LocalCall

\* _copy_template returns or raises: the moves of pc in a Materialize step
\* (Materialize is enabled whenever run() stands in front of line 255)
Materializes ==
    /\ pc = At("materialize", "start")
    /\ pc' \in {AfterStep(pc.step), At(pc.step, "raised")}

\* _write_from_response returns or raises: the moves of pc in a FileFinish
\* step (FileFinish is enabled whenever the client has returned to a file
\* stage)
FileReturns ==
    /\ pc.at = "wait"
    /\ pc.step \in FILE_STAGES
    /\ call.phase = "returned"
    /\ pc' \in {AfterStep(pc.step), At(pc.step, "raised")}

\* the caller may or may not ask for cancellation; the run itself goes on:
\* a thread that is not blocked is scheduled, and each backend call, wait
\* and file operation is taken to return or fail
SpecLive ==
    InitLive /\ [][Next]_vars /\ WF_vars(RunStep) /\ WF_pc(Materializes) /\ WF_pc(FileReturns)


\* ------------------------------------------- the extractor on drawn inputs
Tokens == {"{", "}", "k", "f", "s", "e", "n", "p"}

RawResponses == UNION {[1..n -> Tokens] : n \in 0..MaxLen}

InitExtract ==
    /\ self = NewAgent("", "", "", "gpt4all")
    /\ installed = {}
    /\ should_stop = FALSE
    /\ fs = TemplateFS(FALSE, FALSE)
    /\ pc = At("name", "off")
    /\ target_dir = << >>
    /\ done = << >>
    /\ replaced = FALSE
    /\ ctx = NoCtx
    /\ call = IdleCall
    /\ outcome = NoOutcome
    /\ sink = {}
    /\ trace = NoTrace
    /\ runs = NoRuns
    /\ host = NoHost
    /\ \E raw \in RawResponses :
        ex = [phase |-> "input", raw |-> raw, content |-> << >>, raised |-> FALSE]

\* _write_from_response applied to the drawn response
Extract ==
    /\ ex.phase = "input"
    /\ LET r == ExtractContent(ex.raw) IN
        ex' = [ex EXCEPT !.phase = "done", !.content = r.content, !.raised = ~r.isstr]
    /\ UNCHANGED <<self, installed, should_stop, fs, pc, target_dir, done, replaced, ctx, call, outcome, sink, trace,
                   runs, host>>

NextExtract == Extract

SpecExtract == InitExtract /\ [][NextExtract]_vars

\* --------------------------------------------- one invocation of the client
ClientReplies == { << "r" >>, << " ", "r", "\n" >> }

InitClient ==
    /\ \E c \in Configs :
        /\ self = NewAgent(c.provider, c.model, c.key, c.backend)
        /\ installed = c.installed
        /\ \E cb \in BOOLEAN :
            call = BeginCall(NewAgent(c.provider, c.model, c.key, c.backend), cb,
                             ClientReplies, Outcomes)
    /\ should_stop = FALSE
    /\ fs = TemplateFS(FALSE, FALSE)
    /\ pc = At("name", "off")
    /\ target_dir = << >>
    /\ done = << >>
    /\ replaced = FALSE
    /\ ctx = NoCtx
    /\ outcome = NoOutcome
    /\ ex = IdleEx
    /\ sink \in SinkFaults
    /\ trace = NoTrace
    /\ runs = NoRuns
    /\ host = NoHost

NextClient ==
    \/ ApiBegin
    \/ OpenRouterAttempt
    \/ OpenRouterSleep
    \/ GeminiAttempt
    \/ LocalCall

SpecClient == InitClient /\ [][NextClient]_vars\* ------------------------------------------- the name handed to materialize
\* lines 250-255 on replies of the backend that spell paths: blank, ".",
\* "..", nested, absolute, and a plain name
PathReplies ==
    { << " " >>, << "." >>, << ".", "." >>, << "a", "/", "b" >>, << "/", "x" >>,
      << ".", ".", "/", "x" >>, << "a" >> }

\* the client has just returned its reply to the name instruction
InitMaterialize ==
    /\ self = NewAgent("", "", "", "gpt4all")
    /\ installed = {"gpt4all"}
    /\ should_stop \in BOOLEAN
    /\ fs \in InitialFileSystems
    /\ pc = At("name", "wait")
    /\ target_dir = << >>
    /\ done = << >>
    /\ replaced = FALSE
    /\ ctx = NoCtx
    /\ \E reply \in PathReplies :
          call = [IdleCall EXCEPT !.phase = "returned", !.result = reply]
    /\ outcome = NoOutcome
    /\ ex = IdleEx
    /\ sink = {}
    /\ trace = NoTrace
    /\ runs = NoRuns
    /\ host = NoHost

NextMaterialize ==
    \/ NameFinish
    \/ Gate
    \/ Materialize

SpecMaterialize == InitMaterialize /\ [][NextMaterialize]_vars


\* ----------------------------------------------- agents running side by side
\* Each agent has fields and a target directory of its own; the file system
\* is the one thing they share. The steps of run() interleave.
RUNS == {1, 2}

\* raw replies to the name instruction of the agents
ParallelReplies == { << "a" >>, << ".", "/", "a" >>, << "a", "/", "b" >>, << "c" >> }

NewRun(name) ==
    [name |-> name, step |-> "materialize", target |-> << >>,
     out |-> NoCtx, existing |-> NoCtx]

\* what the backend hands agent r for a file stage
Generated(r, stage) == << IF r = 1 THEN "one" ELSE "two", stage >>
\* the next step of run() that touches the file system (the plan stage of
\* line 261 touches nothing the agents share)
RunAfter(step) == IF step = "materialize" THEN "logic" ELSE AfterStep(step).step


InitParallel ==
    /\ self = NewAgent("", "", "", "gpt4all")
    /\ installed = {}
    /\ should_stop = FALSE
    /\ fs = TemplateFS(TRUE, TRUE)
    /\ pc = At("name", "off")
    /\ target_dir = << >>
    /\ done = << >>
    /\ replaced = FALSE
    /\ ctx = NoCtx
    /\ call = IdleCall
    /\ outcome = NoOutcome
    /\ ex = IdleEx
    /\ sink = {}
    /\ trace = NoTrace
    /\ runs \in [RUNS -> {NewRun(AskAppName(reply)) : reply \in ParallelReplies}]
    /\ host = NoHost

\* line 255 in agent r
RunMaterialize(r) ==
    /\ runs[r].step = "materialize"
    /\ LET c == CopyTemplate(fs, runs[r].name) IN
        /\ fs' = c.fs
        /\ runs' = [runs EXCEPT ![r] =
                       IF c.raised THEN [@ EXCEPT !.step = "raised"]
                       ELSE [@ EXCEPT !.step = RunAfter("materialize"),
                                      !.target = c.target]]
    /\ UNCHANGED <<self, installed, should_stop, pc, target_dir, done, replaced, ctx, call, outcome,
                   ex, sink, trace, host>>

\* one of lines 266-275 in agent r: the file read, the reply written
RunFileStage(r) ==
    /\ runs[r].step \in FILE_STAGES
    /\ LET stage == runs[r].step
           path  == runs[r].target \o RelOf(stage)
       IN  /\ fs' = WriteText(fs, path, Generated(r, stage))
           /\ runs' = [runs EXCEPT ![r] =
                          [@ EXCEPT !.step = RunAfter(stage),
                                    !.out[stage] = Generated(r, stage),
                                    !.existing[stage] = ReadOrEmpty(fs, path)]]
    /\ UNCHANGED <<self, installed, should_stop, pc, target_dir, done, replaced, ctx, call, outcome,
                   ex, sink, trace, host>>

\* lines 277-280 in agent r
RunPost(r) ==
    /\ runs[r].step = "post"
    /\ fs' = UpdateStringsXml(fs, runs[r].target, runs[r].name)
    /\ runs' = [runs EXCEPT ![r].step = "returned"]
    /\ UNCHANGED <<self, installed, should_stop, pc, target_dir, done, replaced, ctx, call, outcome,
                   ex, sink, trace, host>>

NextParallel ==
    \/ \E r \in RUNS : RunMaterialize(r)
    \/ \E r \in RUNS : RunFileStage(r)
    \/ \E r \in RUNS : RunPost(r)

SpecParallel == InitParallel /\ [][NextParallel]_vars

\* ---------------------------------------------------------- the desktop host
\* main.py: the window's button starts a worker thread that runs the
\* pipeline; the worker's signals are queued to the window's thread and
\* handled there one by one.
\* runs started per window
MaxRuns == 2
\* progress signals waiting in the queue
MaxQueue == 3

HostFrame ==
    UNCHANGED <<self, installed, should_stop, fs, pc, target_dir, done, replaced, ctx, call, outcome,
                ex, sink, trace, runs>>

\* the configuration file may hold something else than an object under
\* "local" (config_store.py line 30 merges whatever the file holds)
InitHost ==
    /\ self = NewAgent("", "", "", "gpt4all")
    /\ installed = {"gpt4all"}
    /\ should_stop = FALSE
    /\ fs = TemplateFS(TRUE, TRUE)
    /\ pc = At("name", "off")
    /\ target_dir = << >>
    /\ done = << >>
    /\ replaced = FALSE
    /\ ctx = NoCtx
    /\ call = IdleCall
    /\ outcome = NoOutcome
    /\ ex = IdleEx
    /\ sink = {}
    /\ trace = NoTrace
    /\ runs = NoRuns
    /\ \E ok \in BOOLEAN : host = [NoHost EXCEPT !.cfg_ok = ok]

\* the user types an idea into the input box or clears it
TypeIdea ==
    /\ host' = [host EXCEPT !.idea = ~@]
    /\ HostFrame

\* lines 231-234: the button clicked with nothing typed
ClickEmpty ==
    /\ host.button
    /\ ~host.idea
    /\ host' = [host EXCEPT !.log = @ \cup {"please"}]
    /\ HostFrame

\* variant: start_agent without the setDisabled(True) of line 235
Enabled_StartAgent ==
    /\ host.button
    /\ host.idea
    /\ host.started < MaxRuns
    /\ host' = IF host.cfg_ok
               THEN [host EXCEPT !.log = {"starting"},
                                 !.running = @ + 1, !.started = @ + 1]
               ELSE [host EXCEPT !.log = {"starting"}]
    /\ HostFrame

\* lines 235-248: the button clicked (a disabled button emits no click)
\* with an idea typed; line 238 raises when the configuration is malformed
StartAgent ==
    /\ host.button
    /\ host.idea
    /\ host.started < MaxRuns
    /\ host' = IF host.cfg_ok
               THEN [host EXCEPT !.button = FALSE, !.log = {"starting"},
                                 !.running = @ + 1, !.started = @ + 1]
               ELSE [host EXCEPT !.button = FALSE, !.log = {"starting"}]
    /\ HostFrame

\* line 36: a notification of the agent, emitted as progress_signal
WorkerProgress ==
    /\ host.running > 0
    /\ Len(host.queue) < MaxQueue
    /\ host' = [host EXCEPT !.queue = Append(@, "progress")]
    /\ HostFrame

\* lines 43-47: agent.run returned (done_signal) or raised (error_signal)
WorkerEnd ==
    /\ host.running > 0
    /\ \E kind \in {"returned", "raised"} :
          host' = [host EXCEPT !.queue = Append(@, IF kind = "returned" THEN "done" ELSE "error"),
                               !.running = @ - 1, !.finals = @ + 1]
    /\ HostFrame

\* the window's thread takes the next queued signal: append_log (221-228),
\* on_done (250-252), on_error (254-256)
Deliver ==
    /\ host.queue # << >>
    /\ LET sig == Head(host.queue) IN
        host' = [host EXCEPT !.queue = Tail(@), !.log = @ \cup {sig},
                             !.button = IF sig \in {"done", "error"} THEN TRUE ELSE @]
    /\ HostFrame

NextHost ==
    \/ TypeIdea
    \/ ClickEmpty
    \/ StartAgent
    \/ WorkerProgress
    \/ WorkerEnd
    \/ Deliver

\* the worker's run ends (it is a run of the pipeline) and the event loop
\* of the window's thread handles every queued signal
SpecHost == InitHost /\ [][NextHost]_vars /\ WF_vars(WorkerEnd) /\ WF_vars(Deliver)


\* =================================================================== claims
Range(q) == {q[i] : i \in 1..Len(q)}

\* the waits 2^0, 2^1, ..., 2^(k-1)
Backoffs(k) == [i \in 1..k |-> Pow2(i - 1)]

AllTransient(h) == \A i \in 1..Len(h) : h[i] = "transient"

\* C1: a remote invocation whose first k <= 3 attempts end in a transient
\* outcome goes on to attempt k+1 (it has not raised), and when that attempt
\* succeeds it returns the trimmed text after exactly k waits 1, 2, 4, ...
C1_RetryThenSuccess ==
    call.api =>
        /\ (call.hist # << >> /\ Len(call.hist) <= LAST_ATTEMPT /\ AllTransient(call.hist))
              => call.phase # "raised"
        /\ (call.phase = "returned" /\ AllTransient(SubSeq(call.hist, 1, Len(call.hist) - 1)))
              => /\ call.result \in {PyStrip(t) : t \in call.replies}
                 /\ call.waits = Backoffs(Len(call.hist) - 1)

\* C2: after 4 consecutive transient outcomes the client has made exactly
\* 4 attempts, has waited 1, 2, 4 and nothing after the 4th failure, and has
\* raised one terminal error whose cause is the 4th failure; there is never
\* a 5th attempt
C2_ExhaustedRetries ==
    call.api =>
        /\ Len(call.hist) <= MAX_ATTEMPTS
        /\ call.attempt < MAX_ATTEMPTS
        /\ (Len(call.hist) = MAX_ATTEMPTS /\ AllTransient(call.hist))
              => /\ call.phase = "raised"
                 /\ call.error.type = "RuntimeError"
                 /\ call.error.cause = call.last_err
                 /\ call.error.cause.attempt = MAX_ATTEMPTS - 1
                 /\ call.error.cause.type \in {"Timeout", "HTTPError"}
                 /\ call.waits = Backoffs(MAX_ATTEMPTS - 1)

C2_Witness ==
    /\ call.api
    /\ Len(call.hist) = MAX_ATTEMPTS
    /\ AllTransient(call.hist)
    /\ call.phase = "raised"
    /\ call.waits = <<1, 2, 4>>

\* C3: a non-transient failure of a remote attempt ends the invocation at
\* once: the client has raised, with no wait pending and no later attempt
C3_FatalIsImmediate ==
    call.api =>
        \A i \in 1..Len(call.hist) :
            call.hist[i] = "fatal" => (i = Len(call.hist) /\ call.phase = "raised")

\* the stage files of the steps completed so far are on disk with the
\* content the agent recorded for them
Recorded(stage) ==
    IF stage = "logic" THEN self.generated_main_activity
    ELSE IF stage = "layout" THEN self.generated_layout
    ELSE IF stage = "manifest" THEN self.generated_manifest
    ELSE self.generated_gradle

FilesOnDisk ==
    \A st \in FILE_STAGES \cap Range(done) :
        /\ target_dir \o RelOf(st) \in DOMAIN fs
        /\ fs[target_dir \o RelOf(st)] = Recorded(st)

Cancelled == pc.at = "raised" /\ outcome.error = CANCELLED

\* a run ended by the cancellation error stopped in front of step i with
\* exactly steps 1..i-1 completed, their files on disk
CancelledInFront ==
    Cancelled =>
        /\ done = SubSeq(STEPS, 1, StepIndex(pc.step) - 1)
        /\ outcome.kind = "raised"
        /\ FilesOnDisk

\* the next step of run() when the predicate is true at the given boundary:
\* the cancellation error, no step executed, nothing written
CancelsAt(boundary) ==
    (should_stop /\ boundary /\ pc' # pc) =>
        /\ pc' = At(pc.step, "raised")
        /\ outcome'.error = CANCELLED
        /\ done' = done
        /\ fs' = fs
        /\ self' = self
        /\ call' = call

\* after the cancellation error no step runs
StaysCancelled == Cancelled => UNCHANGED <<pc, done, fs, self, call, outcome>>

C5_ContextFromEarlierStages ==
    LET onDisk(st) == fs[target_dir \o RelOf(st)] IN
    /\ ctx["logic"] # << >> =>
          /\ {"name", "plan"} \subseteq Range(done)
          /\ ctx["logic"] = << "App name: " >> \o self.app_name
                \o << "\nArchitecture plan (optional):\n" >> \o self.architecture_plan
    /\ ctx["layout"] # << >> =>
          /\ "logic" \in Range(done)
          /\ ctx["layout"] = << "MainActivity.kt just generated:\n" >> \o onDisk("logic")
    /\ ctx["manifest"] # << >> =>
          /\ {"logic", "layout"} \subseteq Range(done)
          /\ ctx["manifest"] = << "MainActivity.kt:\n" >> \o onDisk("logic")
                \o << "\n\nactivity_main.xml:\n" >> \o onDisk("layout")
    /\ ctx["gradle"] # << >> =>
          /\ "logic" \in Range(done)
          /\ ctx["gradle"] = << "MainActivity.kt:\n" >> \o onDisk("logic")

C5_Witness ==
    /\ ctx["gradle"] # << >>
    /\ fs[target_dir \o REL_MAIN] = << "X" >>
    /\ fs[target_dir \o REL_LAYOUT] = << "p" >>
    /\ ctx["manifest"] = << "MainActivity.kt:\n", "X", "\n\nactivity_main.xml:\n", "p" >>

\* ---- the extractor
\* a well-formed JSON object whose content member is a non-empty string
WellFormedWithContent(t) ==
    LET v == JsonLoads(t) IN
    v.ok /\ v.kind = "obj" /\ v.has /\ v.ckind = "str" /\ v.cstr # << >>

ContentOf(t) == JsonLoads(t).cstr

Has(raw, c) == \E i \in 1..Len(raw) : raw[i] = c

\* the text from the first "{" through the last "}", empty when there is none
Braced(raw) ==
    IF Has(raw, "{") /\ Has(raw, "}")
    THEN SubSeq(raw, PyFind(raw, "{") + 1, PyRFind(raw, "}") + 1)
    ELSE << >>

\* braces nest properly: never more closed than opened, all closed at the end
Depth(raw, n) ==
    Cardinality({i \in 1..n : raw[i] = "{"}) - Cardinality({i \in 1..n : raw[i] = "}"})
Balanced(raw) == Depth(raw, Len(raw)) = 0 /\ \A n \in 1..Len(raw) : Depth(raw, n) >= 0

\* C6 as claimed: a well-formed object with a non-empty string content X
\* anywhere in the raw response makes the extraction yield X
C6_ObjectAnywhere ==
    ex.phase = "done" =>
        \A i \in 1..Len(ex.raw), j \in 1..Len(ex.raw) :
            (i <= j /\ WellFormedWithContent(SubSeq(ex.raw, i, j)))
                => (~ex.raised /\ ex.content = ContentOf(SubSeq(ex.raw, i, j)))

\* C6 amended: the same when no "{" stands before the object and no "}"
\* after it (other prose, a "}" before or a "{" after it included)
C6_ObjectBetweenOuterBraces ==
    ex.phase = "done" =>
        \A i \in 1..Len(ex.raw), j \in 1..Len(ex.raw) :
            (/\ i <= j
             /\ WellFormedWithContent(SubSeq(ex.raw, i, j))
             /\ ~Has(SubSeq(ex.raw, 1, i - 1), "{")
             /\ ~Has(SubSeq(ex.raw, j + 1, Len(ex.raw)), "}"))
                => (~ex.raised /\ ex.content = ContentOf(SubSeq(ex.raw, i, j)))

C6_Witness ==
    /\ ex.phase = "done"
    /\ ex.raw = << "}", "{", "k", "s", "}" >>
    /\ ex.content = << "X" >>
    /\ ~ex.raised

\* the parsed object has no content member, or an empty string for it
ContentMissingOrEmpty(t) ==
    LET v == JsonLoads(t) IN
    v.ok /\ v.kind = "obj" /\ (~v.has \/ (v.ckind = "str" /\ v.cstr = << >>))

Fallback == ex.content = ex.raw /\ ~ex.raised

\* C7 as claimed: no "{", no "}", unbalanced braces, a braced text that does
\* not parse, or a content that is missing or empty, each yield the raw text
C7_FallbackIfUnbalanced ==
    ex.phase = "done" =>
        ((\/ ~Has(ex.raw, "{")
          \/ ~Has(ex.raw, "}")
          \/ ~Balanced(ex.raw)
          \/ ~JsonLoads(Braced(ex.raw)).ok
          \/ ContentMissingOrEmpty(Braced(ex.raw))) => Fallback)

\* C7 amended: unbalanced braces alone do not decide; the raw text is the
\* result when there is no "{", no "}", the text from the first "{" to the
\* last "}" does not parse, or its content is missing or empty
C7_FallbackIfNoPayload ==
    ex.phase = "done" =>
        ((\/ ~Has(ex.raw, "{")
          \/ ~Has(ex.raw, "}")
          \/ ~JsonLoads(Braced(ex.raw)).ok
          \/ ContentMissingOrEmpty(Braced(ex.raw))) => Fallback)

C7_Witness ==
    /\ ex.phase = "done"
    /\ ex.raw = << "{", "f", "k", "e", "}" >>
    /\ ex.content = ex.raw
    /\ ~ex.raised

\* ---- the pipeline again
\* C8: whatever the model replies, a file stage does not raise
C8_FileStageNeverRaisesOnReply ==
    ~(pc.step \in FILE_STAGES /\ pc.at = "raised" /\ outcome.error.type = "TypeError")

\* C9: after the name stage app_name is not empty and at most 40 characters
C9_AppNameNotEmpty ==
    "name" \in Range(done) => (self.app_name # << >> /\ Len(self.app_name) <= NAME_CAP)

\* the skeleton as _copy_template leaves it for `name`: without the
\* machine-specific file, the project name stamped into the settings file
Skeleton(name) ==
    LET t == Tree(fs, TEMPLATE_DIR) IN
    [r \in DOMAIN t \ {REL_LOCAL_PROPS} |->
        IF r = REL_SETTINGS
        THEN << "pluginManagement", SETTINGS_HEAD >> \o name \o << QUOTE >>
        ELSE t[r]]

\* C10: when the materialize step has completed the target directory holds
\* exactly the skeleton, nothing of an earlier run under that name, and
\* materializing again for the same name changes nothing
C10_MaterializeReplaces ==
    pc = At("plan", "gate") =>
        /\ Tree(fs, target_dir) = Skeleton(self.app_name)
        /\ CopyTemplate(fs, self.app_name).fs = fs
        /\ ~CopyTemplate(fs, self.app_name).raised

C10_Witness ==
    /\ pc = At("plan", "gate")
    /\ replaced
    /\ self.app_name = << "a" >>
    /\ target_dir \o REL_LAYOUT \notin DOMAIN fs
    /\ target_dir \o REL_MAIN \in DOMAIN fs

\* ---- what a run leaves behind
StagesOf(log) == [i \in 1..Len(log) |-> log[i].stage]

FixedPath(stage) ==
    CASE stage = "logic"    -> << << "app" >>, << "MainActivity.kt" >> >>
      [] stage = "layout"   -> << << "app" >>, << "activity_main.xml" >> >>
      [] stage = "manifest" -> << << "app" >>, << "AndroidManifest.xml" >> >>
      [] stage = "gradle"   -> << << "app" >>, << "build.gradle.kts" >> >>

\* the paths whose content differs between two file systems
Touched(f, g) ==
    {p \in DOMAIN f \cup DOMAIN g : p \notin DOMAIN f \/ p \notin DOMAIN g \/ f[p] # g[p]}

\* C12: whatever the model replied (a filename member or none, prose, an
\* object), a file stage writes to the target directory joined with the
\* path fixed for the stage, and to no other path
C12_WritePathFixedByStage ==
    /\ [] (\A i \in 1..Len(trace.writes) :
              trace.writes[i].path = target_dir \o FixedPath(trace.writes[i].stage))
    /\ [][(pc.step \in FILE_STAGES /\ pc.at = "wait")
              => Touched(fs, fs') \subseteq {target_dir \o FixedPath(pc.step)}]_vars

C12_Witness ==
    /\ Len(trace.writes) = 2
    /\ trace.writes[1].reply = << "{", "f", "k", "s", "}" >>
    /\ trace.writes[2].reply = << "p" >>
    /\ trace.writes[1].path = target_dir \o REL_MAIN
    /\ trace.writes[2].path = target_dir \o REL_LAYOUT

\* ---- errors
HasNote(kind) == \E i \in 1..Len(trace.notes) : trace.notes[i].kind = kind

\* C13: each model-backed stage invokes the client at most once in a run;
\* a terminal error of that invocation leaves run() as it is, with no step
\* completed by it, no later stage started and no success notification
C13_NoStageRetry ==
    /\ [] (\A i, j \in 1..Len(trace.calls) :
              i # j => trace.calls[i].stage # trace.calls[j].stage)
    /\ [] (pc.at = "raised" => ~HasNote("success"))
    /\ [][(call.phase = "raised" /\ pc' # pc)
              => /\ pc' = At(pc.step, "raised")
                 /\ outcome'.kind = "raised"
                 /\ outcome'.error = call.error
                 /\ done' = done
                 /\ trace' = trace]_vars
    /\ [][pc.at = "raised" => UNCHANGED <<pc, done, fs, self, call, outcome, trace>>]_vars

C13_Witness ==
    /\ pc = At("layout", "raised")
    /\ outcome.error.msg = "OpenRouter request failed"
    /\ StagesOf(trace.calls) = << "name", "plan", "logic", "layout" >>
    /\ done = << "name", "materialize", "plan", "logic" >>

\* C14: a file a stage has written stays on disk with the content written,
\* through every later stage, the post-process step, a later failure or a
\* cancellation, to the end of the run
C14_WrittenFilesStay ==
    \A i \in 1..Len(trace.writes) :
        /\ trace.writes[i].path \in DOMAIN fs
        /\ fs[trace.writes[i].path] = trace.writes[i].content

C14_Witness ==
    /\ pc = At("gradle", "raised")
    /\ outcome.error.msg = "OpenRouter request failed"
    /\ Len(trace.writes) = 3
    /\ fs[target_dir \o REL_MAIN] = << "X" >>
    /\ fs[target_dir \o REL_MANIFEST] = << "p" >>

\* a returned run whose post-process step rewrote strings.xml
C14_WitnessPost ==
    /\ outcome.kind = "returned"
    /\ fs[target_dir \o REL_STRINGS] = << STR_OPEN, "a", STR_CLOSE >>
    /\ fs[target_dir \o REL_GRADLE] = << "X" >>

\* ---- notifications
KindsOf(log) == [i \in 1..Len(log) |-> log[i].kind]

Flatten(seqs) ==
    LET F[i \in 0..Len(seqs)] == IF i = 0 THEN << >> ELSE F[i - 1] \o seqs[i]
    IN  F[Len(seqs)]

\* the notifications run() attempts, read off the steps it has started and
\* completed and not off the sink
NotesOfStep(step) ==
    IF step \notin Range(StagesOf(trace.calls)) THEN << >>
    ELSE IF step = "name" THEN << "setup" >>
    ELSE IF step = "plan" THEN << "planning" >>
    ELSE IF step \in Range(done) THEN << "stage", "preview" >>
    ELSE << "stage" >>

ExpectedNotes ==
    Flatten([i \in 1..Len(STEPS) |-> NotesOfStep(STEPS[i])])
    \o (IF outcome.kind = "returned" THEN << "success" >> ELSE << >>)

\* the notifications one OpenRouter invocation attempts, read off its attempts
Failures(h) == Cardinality({i \in 1..Len(h) : h[i] # "ok"})

ExpectedClientNotes ==
    << "contacting" >>
    \o [i \in 1..(IF Failures(call.hist) < LAST_ATTEMPT THEN Failures(call.hist) ELSE LAST_ATTEMPT)
          |-> "retry"]

C16_ContactingAndStatus ==
    /\ call.phase \in {"post", "gemini", "sleep", "returned", "raised"}
          => (call.notes # << >> /\ call.notes[1].kind \in {"contacting", "engine"})
    /\ call.phase \in {"returned", "raised"}
          => (call.notes # << >>
              /\ call.notes[Len(call.notes)].kind \in {"ready", "done", "failed"})

\* ---- routing
\* empty after trimming
Blank(arg) == arg \in {"", "  "}

ApiPhases == {"api", "post", "sleep", "gemini"}

\* C17: every invocation of a run goes to the remote client exactly when the
\* provider, the model and the key given to the constructor are all
\* non-empty after trimming, to the local one otherwise, and all
\* invocations of the run go the same way
C17_RoutingFixedByConfig ==
    /\ \A c \in Configs :
          (/\ self.api_provider = StripArg(c.provider)
           /\ self.api_model = StripArg(c.model)
           /\ self.api_key = StripArg(c.key))
          => \A i \in 1..Len(trace.calls) :
                trace.calls[i].api = (~Blank(c.provider) /\ ~Blank(c.model) /\ ~Blank(c.key))
    /\ \A i, j \in 1..Len(trace.calls) : trace.calls[i].api = trace.calls[j].api
    /\ call.phase # "idle" =>
          /\ trace.calls # << >>
          /\ call.api = trace.calls[Len(trace.calls)].api
          /\ call.phase \in ApiPhases => call.api
          /\ call.phase = "local" => ~call.api

C17_Witness ==
    /\ self.api_provider = "OpenRouter"
    /\ self.api_key = ""
    /\ Len(trace.calls) = 6
    /\ \A i \in 1..6 : ~trace.calls[i].api
    /\ call.phase = "local"

\* ---- the error a run ends with
IsCancellation(e) == e.type = "RuntimeError" /\ e.msg = "Operation cancelled"

\* C18: the error of a run aborted at a gate is the cancellation error, the
\* error of a run ended by anything else (exhausted retries, a refusal, an
\* unsupported provider, a missing runtime, a failed write) is never equal
\* to it, and a run that raised has raised exactly one error: the outcome
\* is set once, carries its cause and is never replaced
C18_CancellationDistinct ==
    /\ [] (outcome.kind = "raised" <=> pc.at = "raised")
    /\ [] (outcome.kind = "raised" => outcome.error.type # "none")
    /\ [] (outcome.kind # "raised" => outcome.error = NoError)
    /\ [][(pc.at # "raised" /\ pc'.at = "raised")
              => /\ IsCancellation(outcome'.error) <=> (pc.at = "gate")
                 /\ pc.at # "gate" => outcome'.error \in {call.error,
                                           Error("TypeError", "data must be str", NoCause),
                                           Error("OSError", "copy failed", NoCause)}
                 /\ outcome'.error.msg = "OpenRouter request failed"
                       => outcome'.error.cause = call.last_err]_vars
    /\ [][pc.at = "raised" => UNCHANGED <<pc, outcome>>]_vars

C18_Witness ==
    /\ pc = At("plan", "raised")
    /\ IsCancellation(outcome.error)
    /\ done = << "name", "materialize" >>
    /\ should_stop

\* ---- order
MODEL_BACKED == {"name", "plan", "logic", "layout", "manifest", "gradle"}

\* the members of q that lie in S, in the order of q
Only(q, S) ==
    Flatten([i \in 1..Len(q) |-> IF q[i] \in S THEN << q[i] >> ELSE << >>])

\* C19: the steps completed are always the first ones of the fixed order
\* name, materialize, plan, logic, layout, manifest, build configuration,
\* post-process, each once; the step under way is the one after them; a
\* step completes only as the step under way; the only client invocation
\* in progress belongs to it; the success notification comes after all
C19_StrictOrder ==
    /\ [] (done = SubSeq(STEPS, 1, Len(done)))
    /\ [] (IF pc.step = "finish" THEN done = STEPS
           ELSE Len(done) < Len(STEPS) /\ pc.step = STEPS[Len(done) + 1])
    /\ [] (call.phase # "idle"
             => /\ pc = At(pc.step, "wait")
                /\ pc.step \in MODEL_BACKED
                /\ trace.calls[Len(trace.calls)].stage = pc.step)
    /\ [] (StagesOf(trace.calls)
             \in {Only(done, MODEL_BACKED), Append(Only(done, MODEL_BACKED), pc.step)})
    /\ [] (HasNote("success") => (done = STEPS /\ trace.notes[Len(trace.notes)].kind = "success"))
    /\ [][done' # done => done' = Append(done, pc.step)]_vars

C19_Witness ==
    /\ pc = At("manifest", "wait")
    /\ call.phase = "sleep"
    /\ done = << "name", "materialize", "plan", "logic", "layout" >>
    /\ StagesOf(trace.calls) = << "name", "plan", "logic", "layout", "manifest" >>

\* C20: the success notification is attempted at most once in a run, only
\* when the four file stages and the post-process step have completed,
\* never in a run that raised; a run that returned has attempted it before
\* and has returned the target directory
C20_SuccessOnceAtEnd ==
    /\ Cardinality({i \in 1..Len(trace.notes) : trace.notes[i].kind = "success"}) <= 1
    /\ HasNote("success")
          => /\ FILE_STAGES \cup {"post"} \subseteq Range(done)
             /\ Len(trace.writes) = 4
             /\ outcome.kind = "returned"
    /\ outcome.kind = "raised" => ~HasNote("success")
    /\ outcome.kind = "returned"
          => /\ HasNote("success")
             /\ outcome.value = target_dir
             /\ Exists(fs, target_dir)

C20_Witness ==
    /\ outcome.kind = "returned"
    /\ sink = {}
    /\ trace.notes[Len(trace.notes)] = [kind |-> "success", stage |-> "finish", result |-> "delivered"]
    /\ done = STEPS

\* ---- cancellation while a call is in flight
Ended == pc.at \in {"raised", "returned"}

\* the request arrived while the stage named was waiting for its client
StopInFlight == trace.stop.at = "wait"

\* with the request pending, the client goes on as without it (it never
\* raises the cancellation error, run() stays where it is) and the stage
\* ends as it would have: completed, its file written, or with its own error
NotInterrupted ==
    /\ (should_stop /\ call' # call /\ pc' = pc)
          => (~IsCancellation(call'.error) /\ outcome' = outcome /\ done' = done)
    /\ (should_stop /\ pc.at = "wait" /\ pc' # pc)
          => \/ /\ done' = Append(done, pc.step)
                /\ pc.step \in FILE_STAGES
                      => /\ Len(trace'.writes) = Len(trace.writes) + 1
                         /\ target_dir \o RelOf(pc.step) \in DOMAIN fs'
             \/ /\ pc' = At(pc.step, "raised")
                /\ ~IsCancellation(outcome'.error)

ASSIGNING == <<"name", "materialize", "plan", "logic", "layout", "manifest", "gradle">>

\* the piece of pipeline state that the step assigns
StateOf(step) ==
    IF step = "name" THEN self.app_name
    ELSE IF step = "materialize" THEN target_dir
    ELSE IF step = "plan" THEN self.architecture_plan
    ELSE Recorded(step)

\* C22: pipeline state is write-once within a run: app_name, the target
\* directory, architecture_plan and the four stage outputs change only in
\* the step that assigns them, each such step completes at most once and
\* in the order of run(), and a value assigned stays as it is for the rest
\* of the run
C22_WriteOnce ==
    /\ [](\A i, j \in 1..Len(done) : done[i] = done[j] => i = j)
    /\ [](Only(done, Range(ASSIGNING)) = SubSeq(ASSIGNING, 1, Len(Only(done, Range(ASSIGNING)))))
    /\ [][\A s \in Range(ASSIGNING) :
            /\ s \in Range(done) => StateOf(s)' = StateOf(s)
            /\ StateOf(s)' # StateOf(s) =>
                  /\ s \notin Range(done)
                  /\ done' = Append(done, s)]_vars

C22_Witness ==
    /\ pc = At("finish", "returned")
    /\ Range(ASSIGNING) \subseteq Range(done)
    /\ self.app_name # << >>
    /\ self.architecture_plan # << >>
    /\ self.generated_main_activity # self.generated_gradle
    /\ self.generated_layout # self.generated_manifest

\* ---- the post-process step
StringsPath == target_dir \o REL_STRINGS

\* the four files the stages wrote, as they are on disk
Authored(f) == [s \in FILE_STAGES |-> f[target_dir \o RelOf(s)]]

\* C23: the post-process step never aborts the run: whatever the state of
\* the resource file and whether or not the substitution or the rewrite
\* fails, the step completes, leaves every file but the resource file as
\* it is, and is followed by the success notification and the return of
\* the target directory
C23_PostProcessNeverAborts ==
    /\ [](pc = At("post", "start") => ENABLED PostProcess)
    /\ [][pc = At("post", "start") /\ pc' # pc =>
            /\ pc' = At("finish", "start")
            /\ outcome' = outcome
            /\ DOMAIN fs' = DOMAIN fs
            /\ \A p \in DOMAIN fs : p # StringsPath => fs'[p] = fs[p]
            /\ Authored(fs') = Authored(fs)]_vars
    /\ [][pc = At("finish", "start") /\ pc' # pc =>
            /\ pc' = At("finish", "returned")
            /\ outcome'.kind = "returned"
            /\ outcome'.value = target_dir
            /\ Len(trace'.notes) = Len(trace.notes) + 1
            /\ trace'.notes[Len(trace'.notes)].kind = "success"]_vars
    /\ [](pc.step = "finish" => "post" \in Range(done))

\* the run returned although the substitution raised: the name begins with
\* a digit and the entry still holds the skeleton's text
C23_Witness ==
    /\ pc = At("finish", "returned")
    /\ outcome.value = target_dir
    /\ TemplateError(self.app_name)
    /\ StringsPath \in DOMAIN fs
    /\ fs[StringsPath] = << STR_OPEN, "o", "l", "d", STR_CLOSE >>
    /\ \A s \in FILE_STAGES : target_dir \o RelOf(s) \in DOMAIN fs

\* the run returned without the resource file
C23_WitnessMissing ==
    /\ pc = At("finish", "returned")
    /\ StringsPath \notin DOMAIN fs

\* the run returned with a resource file that has no app_name entry
C23_WitnessPlain ==
    /\ pc = At("finish", "returned")
    /\ StringsPath \in DOMAIN fs
    /\ fs[StringsPath] = STRINGS_PLAIN

\* the run returned although the rewrite failed, before or after the
\* file was truncated
C23_WitnessRewrite ==
    /\ pc = At("finish", "returned")
    /\ ~TemplateError(self.app_name)
    /\ StringsPath \in DOMAIN fs
    /\ fs[StringsPath] \in {<< >>, << STR_OPEN, "o", "l", "d", STR_CLOSE >>}

\* ---- agents side by side
\* the file system that agent r leaves when it runs with no other agent
Alone(r) ==
    LET c  == CopyTemplate(TemplateFS(TRUE, TRUE), runs[r].name)
        w1 == WriteText(c.fs, c.target \o REL_MAIN, Generated(r, "logic"))
        w2 == WriteText(w1, c.target \o REL_LAYOUT, Generated(r, "layout"))
        w3 == WriteText(w2, c.target \o REL_MANIFEST, Generated(r, "manifest"))
        w4 == WriteText(w3, c.target \o REL_GRADLE, Generated(r, "gradle"))
    IN  UpdateStringsXml(w4, c.target, runs[r].name)

\* C24: when the agents resolved to different app names, the directory of
\* an agent that has returned holds the skeleton and that agent's four
\* files and nothing else, and each stage of the agent read the skeleton's
\* file, as in a run of that agent alone
C24_ParallelRunsIsolated ==
    (runs # NoRuns /\ runs[1].name # runs[2].name) =>
        \A r \in RUNS :
            runs[r].step = "returned" =>
                /\ Tree(fs, runs[r].target) = Tree(Alone(r), runs[r].target)
                /\ \A s \in FILE_STAGES :
                      runs[r].existing[s] = TemplateTree(TRUE, TRUE)[RelOf(s)]

\* ---- where materialize works
\* the materialize step has deleted and copied, or has raised on the way
Materialized == "materialize" \in Range(done) \/ pc = At("materialize", "raised")

\* the directory that _copy_template deletes and recreates
Worked == JoinPath(OUTPUT_DIR, self.app_name)

\* C25: whatever name the name stage produced, the directory that the
\* materialize step deletes and recreates lies strictly below the output
\* root
C25_TargetBelowOutputRoot == Materialized => Below(OUTPUT_DIR, Worked)

\* ---- a stage that fails
\* a step of a model-backed stage, from its start to the error of its
\* client, other than the return of the client
StageStep ==
    /\ pc.at \in {"start", "wait"}
    /\ pc.step \in MODEL_BACKED
    /\ call.phase # "returned"
    /\ call'.phase # "returned"

OutsideCache(p) == ~IsPrefix(MODEL_CACHE_DIR, p)

\* C26 as stated: no step of a stage that ends in an error of its client
\* changes the file system, the target directory or a recorded output
C26_FailedStageNoEffect ==
    [][StageStep => /\ fs' = fs
                    /\ self' = self
                    /\ target_dir' = target_dir
                    /\ done' = done]_vars

\* C26: a stage that ends in an error of its client leaves every file and
\* directory outside the local model directory, the target directory and
\* the recorded outputs as they were; the local client may have made its
\* model directory and fetched the model file before it failed
C26_FailedStageKeepsProject ==
    [][StageStep => /\ \A p \in (DOMAIN fs \cup DOMAIN fs') :
                          OutsideCache(p) => p \in DOMAIN fs /\ p \in DOMAIN fs' /\ fs'[p] = fs[p]
                    /\ call.api => fs' = fs
                    /\ self' = self
                    /\ target_dir' = target_dir
                    /\ done' = done]_vars

\* the name stage failed on the local client: no project directory, but
\* the model directory is there
C26_Witness ==
    /\ pc = At("name", "raised")
    /\ outcome.error = Error("RuntimeError", "Missing GPT4All runtime", NoCause)
    /\ ~Exists(fs, OUTPUT_DIR)
    /\ Exists(fs, MODEL_CACHE_DIR)
    /\ MODEL_FILE \notin DOMAIN fs

\* the name stage failed on an unsupported provider: nothing on disk changed
C26_WitnessProvider ==
    /\ pc = At("name", "raised")
    /\ outcome.error.type = "ValueError"
    /\ fs \in InitialFileSystems

\* the layout stage failed: its file holds the skeleton's text, the logic
\* stage's output is recorded
C26_WitnessFileStage ==
    /\ pc = At("layout", "raised")
    /\ ~IsCancellation(outcome.error)
    /\ target_dir \o REL_LAYOUT \in DOMAIN fs
    /\ fs[target_dir \o REL_LAYOUT] = TemplateTree(TRUE, TRUE)[REL_LAYOUT]
    /\ self.generated_main_activity # << >>
    /\ self.generated_layout = << >>

\* ---- termination
\* how a run that ended has ended
Returned  == pc = At("finish", "returned") /\ outcome.kind = "returned"
Failed    == pc.at = "raised" /\ outcome.kind = "raised" /\ outcome.error # CANCELLED

\* C27: every run ends, as a return, a cancellation error or a stage
\* error and in one of them only, and stays ended; it makes no more model
\* invocations than there are model-backed stages (6), and an invocation
\* makes at most 4 HTTP attempts and at most 3 waits
C27_Terminates ==
    /\ <>Ended
    /\ [](Ended => \/ Returned /\ ~Cancelled /\ ~Failed
                   \/ Cancelled /\ ~Returned /\ ~Failed
                   \/ Failed /\ ~Returned /\ ~Cancelled)
    /\ [][Ended => pc' = pc /\ outcome' = outcome]_vars
    /\ [](Len(trace.calls) <= Cardinality(MODEL_BACKED))
    /\ [](Len(call.hist) <= MAX_ATTEMPTS)
    /\ [](Len(call.waits) <= LAST_ATTEMPT)

\* the sixth invocation of a run in its fourth attempt after three waits
C27_Witness ==
    /\ pc = At("gradle", "wait")
    /\ Len(trace.calls) = Cardinality(MODEL_BACKED)
    /\ Len(call.hist) = MAX_ATTEMPTS
    /\ Len(call.waits) = LAST_ATTEMPT

\* ---- the desktop host
\* a done or error signal is at the head of the queue
FinalDue == host.queue # << >> /\ Head(host.queue) \in {"done", "error"}

\* the done and error signals waiting in the queue
FinalsQueued == Cardinality({i \in 1..Len(host.queue) : host.queue[i] \in {"done", "error"}})

\* C28: a window has at most one run in flight; the button is disabled
\* while the run is in flight; every run that ended emitted one done or
\* error signal and there is never more than one of them waiting; the
\* handling of either enables the button; and after a run has ended the
\* button is enabled again
C28_OneRunPerWindow ==
    /\ [](host.running <= 1)
    /\ [](host.running = 1 => ~host.button)
    /\ [](host.finals + host.running = host.started)
    /\ [](FinalsQueued <= 1 /\ (host.running = 1 => FinalsQueued = 0))
    /\ [][FinalDue /\ host'.queue = Tail(host.queue) => host'.button]_vars
    /\ ((host.started > 0 /\ host.running = 0 /\ ~host.button) ~> host.button)

\* the second run of a window is in flight, the first has ended
C28_Witness ==
    /\ host.started = 2
    /\ host.running = 1
    /\ host.finals = 1
    /\ ~host.button
    /\ host.log = {"starting"}

====
